---- MODULE Spec2Model ----
(***************************************************************************)
(* Model of NemIOSClient/ed25519/generator.c: createPrivateKey,            *)
(* createPublicKey and Sign, the Keccak flavoured Ed25519 key derivation   *)
(* and signing routines.  Buffers are C arrays (sequences, C index k is    *)
(* element k+1), texts are sequences of one-character strings closed by    *)
(* NUL.  The hash and the curve arithmetic live in libraries outside the   *)
(* file and are replaced by small deterministic stand-ins: a polynomial    *)
(* hash and the additive group of integers modulo GroupOrder, in which the *)
(* base point is 1 and a point is its own discrete logarithm.              *)
(***************************************************************************)
EXTENDS Integers, Sequences, FiniteSets, TLC

\* ---- sizes, generator.c:13-19 ----
privateKeyPartSize == 32
signaturePartRAM == 32
privateKeySize == 64
publicKeySize == 32
signatureSize == 64
seedSize == 32
hash_512_Size == 64

\* ---- bounds of the model ----
MaxMsgLen == 1
GroupOrder == 251

\* ---- characters and the two stdio conversions the file uses ----
\* (the texts of the model are written with lowercase digits only)
NUL == "NUL"
HexDigits == <<"0","1","2","3","4","5","6","7","8","9","a","b","c","d","e","f">>
IsHex(c) == \E k \in 1..16 : HexDigits[k] = c
HexVal(c) == (CHOOSE k \in 1..16 : HexDigits[k] = c) - 1

\* sprintf(dst, "%02x", b): two lowercase digits and the terminating NUL
Sprintf02x(b) == <<HexDigits[(b \div 16) + 1], HexDigits[(b % 16) + 1], NUL>>

\* sscanf(buf + off, "%02x", &value): the value left in `value` afterwards.
\* No digit at buf[off]: nothing is assigned and `value` keeps what it held.
\* One digit followed by a non-digit: the single digit is converted.
Sscanf02x(buf, off, value) ==
    IF ~IsHex(buf[off + 1]) THEN value
    ELSE IF IsHex(buf[off + 2])
         THEN 16 * HexVal(buf[off + 1]) + HexVal(buf[off + 2])
         ELSE HexVal(buf[off + 1])

\* memcpy(dst + off, src, Len(src)) inside dst
Memcpy(dst, off, src) ==
    SubSeq(dst, 1, off) \o src \o SubSeq(dst, off + Len(src) + 1, Len(dst))

\* ---- library stand-ins ----
\* x^n modulo m, by repeated squaring
RECURSIVE PowMod(_, _, _)
PowMod(x, n, m) ==
    IF n = 0 THEN 1 % m
    ELSE LET h == PowMod(x, n \div 2, m)
         IN  IF n % 2 = 0 THEN (h * h) % m ELSE (((h * h) % m) * x) % m

\* the polynomial in[lo..hi] denotes in base 257 (first byte most
\* significant), modulo 32749; split in halves to keep the recursion shallow
RECURSIVE Poly(_, _, _)
Poly(in, lo, hi) ==
    IF lo > hi THEN 0
    ELSE IF lo = hi THEN (in[lo] + 1) % 32749
    ELSE LET mid == (lo + hi) \div 2
         IN  (Poly(in, lo, mid) * PowMod(257, hi - mid, 32749) + Poly(in, mid + 1, hi)) % 32749

Absorb(in, n) == (PowMod(257, n, 32749) + Poly(in, 1, n)) % 32749

\* keccak(in, inlen, md, mdlen): the mdlen digest bytes
keccak(in, mdlen) ==
    LET acc == Absorb(in, Len(in))
    IN  [j \in 1..mdlen |-> ((acc + 131 * (j - 1)) * (j + 6)) % 256]

\* the integer bytes lo..hi of s denote, little-endian, modulo the group order
RECURSIVE ModLRange(_, _, _)
ModLRange(s, lo, hi) ==
    IF lo > hi THEN 0
    ELSE IF lo = hi THEN s[lo] % GroupOrder
    ELSE LET mid == (lo + hi) \div 2
         IN  (ModLRange(s, lo, mid)
              + PowMod(256, mid - lo + 1, GroupOrder) * ModLRange(s, mid + 1, hi)) % GroupOrder

ModL(s, n) == ModLRange(s, 1, n)

\* 32 little-endian bytes of a scalar below the group order
ScalarBytes(x) == [j \in 1..32 |-> IF j = 1 THEN x % 256 ELSE IF j = 2 THEN x \div 256 ELSE 0]

\* sc_reduce(s): s[0..31] become the value of the 64 bytes modulo the order
sc_reduce(s) == Memcpy(s, 0, ScalarBytes(ModL(s, 64)))

\* sc_muladd(out, a, b, c): out = (a * b + c) mod order
sc_muladd(a, b, c) ==
    ScalarBytes((ModL(a, 32) * ModL(b, 32)
                 + ModL(c, 32)) % GroupOrder)

\* ge_scalarmult_base(&P, a): P = a * B
ge_scalarmult_base(a) == ModL(a, 32)

\* ge_p3_tobytes(out, &P): the 32-byte encoding of the point
ge_p3_tobytes(P) == [j \in 1..32 |-> (P + 17 * (j - 1)) % 256]

\* ---- inputs ----
Garbage == {0, 165}
Unwritten == "?"
Unset == 0 - 1
Seeds == { [j \in 1..seedSize |-> 0], [j \in 1..seedSize |-> (37 * j) % 256] }
StaleBuffers == { [j \in 1..seedSize |-> g] : g \in Garbage }
Layouts == {"padding", "private_key", "seed", "i"}

\* PrivateKeyText arguments: a well-formed one, the same text cut to 63
\* characters, and one whose first character is not a hex digit
WellFormedKey == [k \in 1..64 |-> HexDigits[((7 * k + 3) % 16) + 1]] \o <<NUL>>
ShortKey == SubSeq(WellFormedKey, 1, 63) \o <<NUL>>
NonHexKey == [WellFormedKey EXCEPT ![1] = "g"]
PrivateKeyTexts == {WellFormedKey, ShortKey, NonHexKey}
\* a PublicKeyText that belongs to some other key
ForeignPublicKey == [k \in 1..64 |-> HexDigits[((5 * k) % 16) + 1]] \o <<NUL>>
MsgBytes == {7, 200}
Messages == UNION { [1..n -> MsgBytes] : n \in 0..MaxMsgLen }

\* the hex-scanning loop of lines 57-62 (and 95-100, 120-125), iterations
\* i..31: `value` is one stack slot, a failed sscanf leaves it as it was
RECURSIVE HexLoop(_, _, _, _, _)
HexLoop(text, i, value, bytes, reversed) ==
    IF i = privateKeyPartSize THEN [bytes |-> bytes, value |-> value]
    ELSE LET v == Sscanf02x(text, 2 * i, value)
             at == IF reversed THEN privateKeyPartSize - i ELSE i + 1
         IN  HexLoop(text, i + 1, v, [bytes EXCEPT ![at] = v % 256], reversed)

And248(b) == b - (b % 8)
And127(b) == b % 128
Or64(b) == IF (b \div 64) % 2 = 1 THEN b ELSE b + 64

\* lines 68-70 on the 64-byte digest of createPublicKey
ClampHash(private_key_hash) ==
    [private_key_hash EXCEPT ![1] = And248(@), ![32] = Or64(And127(@))]

\* lines 141-143 on the 32-byte copy Sign makes
ClampRightPart(privateKeyRightPart) ==
    [privateKeyRightPart EXCEPT ![1] = And248(@), ![32] = Or64(And127(@))]

\* the two memcpy of lines 109-110 with their targets exchanged
NonceInputSwapped(buf, privateKeyHash, data) ==
    Memcpy(Memcpy(buf, 0, data), Len(data),
           SubSeq(privateKeyHash, privateKeyPartSize + 1, privateKeySize))

\* lines 109-110: what the first inData holds when it is hashed
NonceInput(buf, privateKeyHash, data) ==
    Memcpy(Memcpy(buf, 0, SubSeq(privateKeyHash, privateKeyPartSize + 1, privateKeySize)),
           privateKeyPartSize, data)

\* lines 129-131 with the public key copied in front of R
ChallengeInputSwapped(buf, signature, private_key_bytes, data) ==
    Memcpy(Memcpy(Memcpy(buf, 0, SubSeq(private_key_bytes, 1, publicKeySize)),
                  publicKeySize, SubSeq(signature, 1, signaturePartRAM)),
           signaturePartRAM + publicKeySize, data)

\* lines 129-131: what the second inData holds when it is hashed
ChallengeInput(buf, signature, private_key_bytes, data) ==
    Memcpy(Memcpy(Memcpy(buf, 0, SubSeq(signature, 1, signaturePartRAM)),
                  signaturePartRAM, SubSeq(private_key_bytes, 1, publicKeySize)),
           signaturePartRAM + publicKeySize, data)

\* lines 79-82: the 64 digits and the closing NUL of the last sprintf
EncodePublicKey(public_key, in_public_key, i) ==
    Memcpy(public_key, i * 2, Sprintf02x(in_public_key[i + 1]))

RECURSIVE EncodeLoop(_, _, _)
EncodeLoop(public_key, in_public_key, i) ==
    IF i = publicKeySize THEN public_key
    ELSE EncodeLoop(EncodePublicKey(public_key, in_public_key, i), in_public_key, i + 1)

VARIABLES
    pc,               \* where the single caller thread stands
    gen,              \* frame of createPrivateKey
    out_private_key,  \* the caller's buffer createPrivateKey fills
    cpk,              \* frame of createPublicKey
    public_key,       \* the caller's buffer createPublicKey fills
    sgn,              \* frame of Sign
    signature,        \* the caller's buffer Sign fills
    heap,             \* the three malloc sites of Sign
    fault,            \* the invalid memory access that ended the process, if any
    derived,          \* history: the last completed createPublicKey
    prev              \* history: the last completed Sign

vars == <<pc, gen, out_private_key, cpk, public_key, sgn, signature, heap, fault, derived, prev>>

NoFrame == [op |-> "none"]
NoCall == [op |-> "none"]
FreshBuffer(n) == [k \in 1..n |-> Unwritten]
FreshBytes(n) == [k \in 1..n |-> Unset]
FreshHeap == [b \in 1..3 |-> [state |-> "unallocated", mem |-> <<>>, frees |-> 0]]

Init ==
    /\ pc = "idle"
    /\ gen = NoFrame
    /\ cpk = NoFrame
    /\ sgn = NoFrame
    /\ out_private_key = FreshBuffer(privateKeySize + 1)
    /\ public_key = FreshBuffer(2 * publicKeySize + 2)
    /\ signature = FreshBytes(signatureSize + 1)
    /\ heap = FreshHeap
    /\ fault = "none"
    /\ derived = NoCall
    /\ prev = NoCall

\* every call is handed fresh output buffers; each has one cell more than
\* the documented size, so that a store behind the end shows
FreshOutputs ==
    /\ out_private_key' = FreshBuffer(privateKeySize + 1)
    /\ public_key' = FreshBuffer(2 * publicKeySize + 2)
    /\ signature' = FreshBytes(signatureSize + 1)
    /\ heap' = FreshHeap

\* ---- createPrivateKey, generator.c:33-53 ----
createPrivateKey_call ==
    /\ pc = "idle"
    /\ \E layout \in Layouts :
         gen' = [op |-> "createPrivateKey", seed |-> <<>>, private_key |-> <<>>,
                 converted_private_key |-> FreshBuffer(privateKeySize),
                 i |-> 0, adjacent |-> layout, seedFilled |-> FALSE,
                 touched |-> {}]
    /\ FreshOutputs
    /\ derived' = NoCall
    /\ prev' = NoCall
    /\ pc' = "g_seed"
    /\ UNCHANGED <<cpk, sgn, fault>>

\* line 37: the result of ed25519_create_seed is not looked at; on failure
\* the seed array keeps whatever the stack held
createPrivateKey_seed ==
    /\ pc = "g_seed"
    /\ \E ok \in BOOLEAN :
         \E s \in (IF ok THEN Seeds ELSE StaleBuffers) :
            gen' = [gen EXCEPT !.seed = s, !.seedFilled = ok]
    /\ pc' = "g_hash"
    /\ UNCHANGED <<out_private_key, cpk, public_key, sgn, signature, heap, fault, derived, prev>>

\* line 39
createPrivateKey_hash ==
    /\ pc = "g_hash"
    /\ gen' = [gen EXCEPT !.private_key = keccak(gen.seed, privateKeySize), !.i = 0]
    /\ pc' = "g_hex"
    /\ UNCHANGED <<out_private_key, cpk, public_key, sgn, signature, heap, fault, derived, prev>>

\* the cells of converted_private_key one sprintf at offset off stores into
SprintfCells(off) == {off, off + 1, off + 2}

\* lines 44-47, one iteration.  The NUL of the last sprintf lands one past
\* the array, on whatever the frame layout put there.
createPrivateKey_hex ==
    /\ pc = "g_hex"
    /\ IF gen.i < privateKeySize \div 2
       THEN LET off == gen.i * 2
                txt == Sprintf02x(gen.private_key[gen.i + 1])
                inside == SubSeq(txt, 1, IF off + 3 <= privateKeySize THEN 3 ELSE privateKeySize - off)
                spill == off + 3 > privateKeySize
                i1 == IF spill /\ gen.adjacent = "i" THEN 0 ELSE gen.i
            IN  /\ gen' = [gen EXCEPT
                     !.converted_private_key = Memcpy(@, off, inside),
                     !.touched = @ \cup SprintfCells(off),
                     !.private_key = IF spill /\ gen.adjacent = "private_key"
                                     THEN [@ EXCEPT ![1] = 0] ELSE @,
                     !.seed = IF spill /\ gen.adjacent = "seed"
                              THEN [@ EXCEPT ![1] = 0] ELSE @,
                     !.i = i1 + 1]
                /\ pc' = "g_hex"
       ELSE /\ gen' = [gen EXCEPT !.i = 0]
            /\ pc' = "g_copy"
    /\ UNCHANGED <<out_private_key, cpk, public_key, sgn, signature, heap, fault, derived, prev>>

\* the copy loop of lines 49-52 stopping one character early
CopyOutShort(out, converted_private_key) ==
    [k \in DOMAIN out |-> IF k < privateKeySize THEN converted_private_key[k] ELSE out[k]]

\* lines 49-52
CopyOut(out, converted_private_key) ==
    [k \in DOMAIN out |-> IF k <= privateKeySize THEN converted_private_key[k] ELSE out[k]]

createPrivateKey_copy ==
    /\ pc = "g_copy"
    /\ out_private_key' = CopyOut(out_private_key, gen.converted_private_key)
    /\ gen' = [gen EXCEPT !.i = privateKeySize]
    /\ pc' = "g_done"
    /\ UNCHANGED <<cpk, public_key, sgn, signature, heap, fault, derived, prev>>

createPrivateKey_return ==
    /\ pc = "g_done"
    /\ pc' = "idle"
    /\ gen' = NoFrame
    /\ UNCHANGED <<out_private_key, cpk, public_key, sgn, signature, heap, fault, derived, prev>>

\* ---- createPublicKey, generator.c:54-83 ----
createPublicKey_call ==
    /\ pc = "idle"
    /\ \E text \in PrivateKeyTexts, g \in Garbage :
         cpk' = [op |-> "createPublicKey", private_key |-> text, value |-> g,
                 private_key_bytes |-> FreshBytes(privateKeyPartSize),
                 private_key_hash |-> <<>>, A |-> 0, in_public_key |-> <<>>]
    /\ FreshOutputs
    /\ derived' = NoCall
    /\ prev' = NoCall
    /\ pc' = "p_decode"
    /\ UNCHANGED <<gen, sgn, fault>>

\* lines 57-62
createPublicKey_decode ==
    /\ pc = "p_decode"
    /\ LET d == HexLoop(cpk.private_key, 0, cpk.value, cpk.private_key_bytes, TRUE)
       IN  cpk' = [cpk EXCEPT !.private_key_bytes = d.bytes, !.value = d.value]
    /\ pc' = "p_hash"
    /\ UNCHANGED <<gen, out_private_key, public_key, sgn, signature, heap, fault, derived, prev>>

\* lines 66-70
createPublicKey_hash ==
    /\ pc = "p_hash"
    /\ cpk' = [cpk EXCEPT !.private_key_hash =
                  ClampHash(keccak(cpk.private_key_bytes, privateKeySize))]
    /\ pc' = "p_point"
    /\ UNCHANGED <<gen, out_private_key, public_key, sgn, signature, heap, fault, derived, prev>>

\* lines 75-77
createPublicKey_point ==
    /\ pc = "p_point"
    /\ LET A == ge_scalarmult_base(cpk.private_key_hash)
       IN  cpk' = [cpk EXCEPT !.A = A, !.in_public_key = ge_p3_tobytes(A)]
    /\ pc' = "p_encode"
    /\ UNCHANGED <<gen, out_private_key, public_key, sgn, signature, heap, fault, derived, prev>>

\* lines 79-82
createPublicKey_encode ==
    /\ pc = "p_encode"
    /\ public_key' = EncodeLoop(public_key, cpk.in_public_key, 0)
    /\ pc' = "p_done"
    /\ UNCHANGED <<gen, out_private_key, cpk, sgn, signature, heap, fault, derived, prev>>

createPublicKey_return ==
    /\ pc = "p_done"
    /\ pc' = "idle"
    /\ derived' = [op |-> "createPublicKey", private_key |-> cpk.private_key,
                   public_key |-> public_key,
                   scalar |-> SubSeq(cpk.private_key_hash, 1, privateKeyPartSize)]
    /\ cpk' = NoFrame
    /\ UNCHANGED <<gen, out_private_key, public_key, sgn, signature, heap, fault, prev>>

\* ---- Sign, generator.c:84-150 ----
\* The histories are kept only while they are about the key (and message)
\* of the call that starts.
Sign_call ==
    /\ pc = "idle"
    /\ \E privateKey \in PrivateKeyTexts, data \in Messages, g \in Garbage :
         \E pk \in {ForeignPublicKey} \cup
                   (IF derived.op = "createPublicKey" /\ derived.private_key = privateKey
                    THEN {derived.public_key} ELSE {}) :
            /\ sgn' = [op |-> "Sign", privateKey |-> privateKey, public_key |-> pk,
                       data |-> data, dataSize |-> Len(data), stack |-> g, value |-> g,
                       private_key_bytes |-> FreshBytes(privateKeyPartSize),
                       privateKeyHash |-> <<>>, r |-> <<>>, hram |-> <<>>, R |-> 0,
                       inData |-> "unset", privateKeyRightPart |-> "unset"]
            /\ derived' = IF derived.op = "createPublicKey" /\ derived.private_key = privateKey
                          THEN derived ELSE NoCall
            /\ prev' = IF prev.op = "Sign" /\ prev.privateKey = privateKey /\ prev.data = data
                       THEN prev ELSE NoCall
    /\ FreshOutputs
    /\ pc' = "s_decode"
    /\ UNCHANGED <<gen, cpk, fault>>

\* lines 95-100
Sign_decode ==
    /\ pc = "s_decode"
    /\ LET d == HexLoop(sgn.privateKey, 0, sgn.value, sgn.private_key_bytes, TRUE)
       IN  sgn' = [sgn EXCEPT !.private_key_bytes = d.bytes, !.value = d.value]
    /\ pc' = "s_expand"
    /\ UNCHANGED <<gen, out_private_key, cpk, public_key, signature, heap, fault, derived, prev>>

\* line 104 placed behind the loop of lines 120-125: the buffer hashed then
\* holds the decoded public key
Sign_expandAfterOverwrite ==
    /\ pc = "s_expand"
    /\ sgn' = [sgn EXCEPT !.privateKeyHash =
                  keccak(HexLoop(sgn.public_key, 0, sgn.value, sgn.private_key_bytes, FALSE).bytes,
                         privateKeySize)]
    /\ pc' = "s_malloc1"
    /\ UNCHANGED <<gen, out_private_key, cpk, public_key, signature, heap, fault, derived, prev>>

\* line 104
Sign_expand ==
    /\ pc = "s_expand"
    /\ sgn' = [sgn EXCEPT !.privateKeyHash = keccak(sgn.private_key_bytes, privateKeySize)]
    /\ pc' = "s_malloc1"
    /\ UNCHANGED <<gen, out_private_key, cpk, public_key, signature, heap, fault, derived, prev>>

\* malloc(n) at allocation site b: a fresh block, or NULL (0)
Malloc(b, n, next) ==
    /\ \E p \in {0, b} :
         /\ heap' = IF p = 0 THEN heap
                    ELSE [heap EXCEPT ![b] = [state |-> "live", mem |-> FreshBytes(n), frees |-> 0]]
         /\ sgn' = IF b = 3 THEN [sgn EXCEPT !.privateKeyRightPart = p]
                            ELSE [sgn EXCEPT !.inData = p]
    /\ pc' = next
    /\ UNCHANGED <<gen, out_private_key, cpk, public_key, signature, fault, derived, prev>>

\* free(p)
Free(p, next) ==
    /\ heap' = IF p = 0 THEN heap
               ELSE [heap EXCEPT ![p].state = "freed", ![p].frees = @ + 1]
    /\ pc' = next
    /\ UNCHANGED <<gen, out_private_key, cpk, public_key, sgn, signature, fault, derived, prev>>

\* memcpy through a pointer malloc returned as NULL: the process dies
Crash ==
    /\ fault' = "write through NULL"
    /\ pc' = "crashed"
    /\ UNCHANGED <<gen, out_private_key, cpk, public_key, sgn, signature, heap, derived, prev>>

\* line 107
Sign_malloc1 ==
    /\ pc = "s_malloc1"
    /\ Malloc(1, sgn.dataSize + privateKeyPartSize, "s_nonce")

\* lines 109-112
Sign_nonce ==
    /\ pc = "s_nonce"
    /\ IF sgn.inData = 0 THEN Crash
       ELSE LET in == NonceInput(heap[sgn.inData].mem, sgn.privateKeyHash, sgn.data)
            IN  /\ heap' = [heap EXCEPT ![sgn.inData].mem = in]
                /\ sgn' = [sgn EXCEPT !.r = keccak(in, hash_512_Size)]
                /\ pc' = "s_free1"
                /\ UNCHANGED <<gen, out_private_key, cpk, public_key, signature, fault, derived, prev>>

\* line 114
Sign_free1 ==
    /\ pc = "s_free1"
    /\ Free(sgn.inData, "s_R")

\* lines 116-118
Sign_R ==
    /\ pc = "s_R"
    /\ LET r == sc_reduce(sgn.r)
           R == ge_scalarmult_base(r)
       IN  /\ sgn' = [sgn EXCEPT !.r = r, !.R = R]
           /\ signature' = Memcpy(signature, 0, ge_p3_tobytes(R))
    /\ pc' = "s_decodepub"
    /\ UNCHANGED <<gen, out_private_key, cpk, public_key, heap, fault, derived, prev>>

\* lines 120-125: the decoded public key goes into private_key_bytes
Sign_decodepub ==
    /\ pc = "s_decodepub"
    /\ \E g \in Garbage :
         sgn' = [sgn EXCEPT !.private_key_bytes =
                    HexLoop(sgn.public_key, 0, g, sgn.private_key_bytes, FALSE).bytes]
    /\ pc' = "s_malloc2"
    /\ UNCHANGED <<gen, out_private_key, cpk, public_key, signature, heap, fault, derived, prev>>

\* line 127
Sign_malloc2 ==
    /\ pc = "s_malloc2"
    /\ Malloc(2, sgn.dataSize + publicKeySize + signaturePartRAM, "s_challenge")

\* lines 129-133
Sign_challenge ==
    /\ pc = "s_challenge"
    /\ IF sgn.inData = 0 THEN Crash
       ELSE LET in == ChallengeInput(heap[sgn.inData].mem, signature, sgn.private_key_bytes, sgn.data)
            IN  /\ heap' = [heap EXCEPT ![sgn.inData].mem = in]
                /\ sgn' = [sgn EXCEPT !.hram = keccak(in, hash_512_Size)]
                /\ pc' = "s_free2"
                /\ UNCHANGED <<gen, out_private_key, cpk, public_key, signature, fault, derived, prev>>

\* line 135
Sign_free2 ==
    /\ pc = "s_free2"
    /\ Free(sgn.inData, "s_malloc3")

\* line 137
Sign_malloc3 ==
    /\ pc = "s_malloc3"
    /\ Malloc(3, privateKeyPartSize, "s_clamp")

\* lines 139-143
Sign_clamp ==
    /\ pc = "s_clamp"
    /\ IF sgn.privateKeyRightPart = 0 THEN Crash
       ELSE /\ heap' = [heap EXCEPT ![3].mem =
                          ClampRightPart(Memcpy(@, 0, SubSeq(sgn.privateKeyHash, 1, privateKeyPartSize)))]
            /\ pc' = "s_muladd"
            /\ UNCHANGED <<gen, out_private_key, cpk, public_key, sgn, signature, fault, derived, prev>>

\* lines 145-146
Sign_muladd ==
    /\ pc = "s_muladd"
    /\ LET hram == sc_reduce(sgn.hram)
       IN  /\ sgn' = [sgn EXCEPT !.hram = hram]
           /\ signature' = Memcpy(signature, signaturePartRAM,
                                  sc_muladd(hram, heap[sgn.privateKeyRightPart].mem, sgn.r))
    /\ pc' = "s_free3"
    /\ UNCHANGED <<gen, out_private_key, cpk, public_key, heap, fault, derived, prev>>

\* line 148
Sign_free3 ==
    /\ pc = "s_free3"
    /\ Free(sgn.privateKeyRightPart, "s_done")

Sign_return ==
    /\ pc = "s_done"
    /\ pc' = "idle"
    /\ prev' = [op |-> "Sign", privateKey |-> sgn.privateKey, data |-> sgn.data,
                public_key |-> sgn.public_key, stack |-> sgn.stack,
                privateKeyHash |-> sgn.privateKeyHash, r |-> sgn.r,
                a |-> heap[3].mem, signature |-> signature]
    /\ sgn' = NoFrame
    /\ UNCHANGED <<gen, out_private_key, cpk, public_key, signature, heap, fault, derived>>

Next ==
    \/ createPrivateKey_call
    \/ createPrivateKey_seed
    \/ createPrivateKey_hash
    \/ createPrivateKey_hex
    \/ createPrivateKey_copy
    \/ createPrivateKey_return
    \/ createPublicKey_call
    \/ createPublicKey_decode
    \/ createPublicKey_hash
    \/ createPublicKey_point
    \/ createPublicKey_encode
    \/ createPublicKey_return
    \/ Sign_call
    \/ Sign_decode
    \/ Sign_expand
    \/ Sign_malloc1
    \/ Sign_nonce
    \/ Sign_free1
    \/ Sign_R
    \/ Sign_decodepub
    \/ Sign_malloc2
    \/ Sign_challenge
    \/ Sign_free2
    \/ Sign_malloc3
    \/ Sign_clamp
    \/ Sign_muladd
    \/ Sign_free3
    \/ Sign_return

Spec == Init /\ [][Next]_vars

\* ---- what the claims speak about ----
\* a PrivateKeyText or PublicKeyText as section 3 of the specification
\* defines it: 64 hex digits, then the terminator
WellFormed(text) ==
    /\ Len(text) = 2 * privateKeyPartSize + 1
    /\ \A k \in 1..(2 * privateKeyPartSize) : IsHex(text[k])
    /\ text[2 * privateKeyPartSize + 1] = NUL

\* character pair i of a text holds two hex digits; the byte they denote
PairOk(text, i) == IsHex(text[2 * i + 1]) /\ IsHex(text[2 * i + 2])
PairValue(text, i) == 16 * HexVal(text[2 * i + 1]) + HexVal(text[2 * i + 2])
RefDecode(text) == [j \in 1..publicKeySize |-> PairValue(text, j - 1)]

\* the reference verifier: decode R and A, recompute hram, test S*B = R + hram*A
RefPoint(bytes) == CHOOSE P \in 0..(GroupOrder - 1) : ge_p3_tobytes(P) = bytes
Verifies(sig, msg, Abytes) ==
    LET Rb == SubSeq(sig, 1, 32)
        S == ModL(SubSeq(sig, 33, 64), 32)
        h == ModL(keccak(Rb \o Abytes \o msg, 64), 64)
    IN  S % GroupOrder = (RefPoint(Rb) + h * RefPoint(Abytes)) % GroupOrder

SignDone == pc = "s_done"
PairedCall ==
    /\ SignDone
    /\ derived.op = "createPublicKey"
    /\ derived.private_key = sgn.privateKey
    /\ sgn.public_key = derived.public_key

\* C1: a signature made with a well-formed private key and the public key
\* createPublicKey derived from that same key satisfies S*B = R + hram*A
C1_SignatureVerifies ==
    (PairedCall /\ WellFormed(sgn.privateKey))
        => Verifies(signature, sgn.data, RefDecode(sgn.public_key))

C1_Witness ==
    /\ PairedCall
    /\ WellFormed(sgn.privateKey)
    /\ Len(sgn.data) > 0
    /\ sgn.R # 0

\* C2: for every PrivateKeyText the scalar Sign multiplies with equals,
\* bit for bit, the scalar createPublicKey multiplied the base point with
C2_SameScalar ==
    (pc \in {"s_muladd", "s_free3", "s_done"}
        /\ derived.op = "createPublicKey" /\ derived.private_key = sgn.privateKey)
        => heap[3].mem = derived.scalar

\* C3: a PrivateKeyText of 63 characters or with a non-hex character makes
\* neither createPublicKey nor Sign produce a key or a signature
C3_MalformedKeyRejected ==
    /\ (pc = "p_done" /\ ~WellFormed(cpk.private_key))
          => public_key = FreshBuffer(2 * publicKeySize + 2)
    /\ (pc = "s_done" /\ ~WellFormed(sgn.privateKey))
          => signature = FreshBytes(signatureSize + 1)

\* C4: when ed25519_create_seed did not fill the seed, createPrivateKey
\* hashes nothing and writes nothing to its output
C4_NoKeyFromFailedSeed ==
    (gen.op = "createPrivateKey" /\ pc # "g_seed" /\ ~gen.seedFilled)
        => (gen.private_key = <<>> /\ out_private_key = FreshBuffer(privateKeySize + 1))

\* C5: two calls of Sign with the same message, PublicKeyText and
\* PrivateKeyText return the same 64 bytes
C5_SignDeterministic ==
    (SignDone /\ prev.op = "Sign" /\ prev.privateKey = sgn.privateKey
        /\ prev.data = sgn.data /\ prev.public_key = sgn.public_key)
        => prev.signature = signature

\* C6: what a returning call delivers has its fixed length: 64 hex
\* characters from createPrivateKey, 64 hex characters (and the terminator)
\* from createPublicKey, 64 bytes from Sign, and nothing behind them
C6_OutputLengths ==
    /\ pc = "g_done" =>
          /\ \A k \in 1..privateKeySize : IsHex(out_private_key[k])
          /\ out_private_key[privateKeySize + 1] = Unwritten
    /\ pc = "p_done" =>
          /\ \A k \in 1..(2 * publicKeySize) : IsHex(public_key[k])
          /\ public_key[2 * publicKeySize + 1] = NUL
          /\ public_key[2 * publicKeySize + 2] = Unwritten
    /\ pc = "s_done" =>
          /\ \A k \in 1..signatureSize : signature[k] \in 0..255
          /\ SubSeq(signature, 1, signaturePartRAM) = ge_p3_tobytes(sgn.R)
          /\ signature[signatureSize + 1] = Unset

C6_Witness ==
    \/ pc = "g_done" /\ gen.seedFilled
    \/ pc = "p_done" /\ WellFormed(cpk.private_key)
    \/ pc = "s_done" /\ Len(sgn.data) > 0

\* C7: every buffer Sign allocates is released exactly once before Sign
\* returns, also when an allocation fails, and no buffer is accessed when
\* it is not allocated
C7_BuffersReleased ==
    /\ fault = "none"
    /\ pc = "s_done" => \A b \in 1..3 : heap[b].state = "freed" /\ heap[b].frees = 1

\* C8: the nonce hash input is expanded[32:64] then the message; the
\* challenge hash input is R, then the public key bytes taken pair by pair
\* without reversal, then the message; the private key is decoded with
\* reversal
C8_HashInputOrder ==
    /\ pc = "s_free1" =>
          heap[sgn.inData].mem = SubSeq(sgn.privateKeyHash, 33, 64) \o sgn.data
    /\ pc = "s_free2" =>
          /\ SubSeq(heap[sgn.inData].mem, 1, 32) = SubSeq(signature, 1, 32)
          /\ \A i \in 0..31 : PairOk(sgn.public_key, i) =>
                heap[sgn.inData].mem[32 + i + 1] = PairValue(sgn.public_key, i)
          /\ SubSeq(heap[sgn.inData].mem, 65, 64 + Len(sgn.data)) = sgn.data
          /\ Len(heap[sgn.inData].mem) = 64 + Len(sgn.data)
    /\ pc = "s_expand" =>
          \A i \in 0..31 : PairOk(sgn.privateKey, i) =>
                sgn.private_key_bytes[31 - i + 1] = PairValue(sgn.privateKey, i)

C8_Witness ==
    /\ pc = "s_free2"
    /\ Len(sgn.data) > 0
    /\ WellFormed(sgn.privateKey)
    /\ RefDecode(sgn.public_key) # [j \in 1..32 |-> RefDecode(sgn.public_key)[33 - j]]

\* C9: every sprintf of createPrivateKey stores inside converted_private_key
\* (indices 0..63) and exactly indices 0..63 of out_private_key are written
C9_WritesInBounds ==
    /\ gen.op = "createPrivateKey" => gen.touched \subseteq 0..(privateKeySize - 1)
    /\ pc = "g_done" =>
          /\ \A k \in 1..privateKeySize : out_private_key[k] # Unwritten
          /\ out_private_key[privateKeySize + 1] = Unwritten

\* C10: until the loop of lines 120-125 runs, the expanded key is the hash
\* of what private_key_bytes holds; and two calls of Sign that differ only
\* in PublicKeyText (same PrivateKeyText, same message, entered with the
\* same frame contents) have the same expanded key, nonce r, clamped scalar
\* a and signature bytes 0..31
C10_PublicKeyOnlyInS ==
    /\ pc \in {"s_malloc1", "s_nonce", "s_free1", "s_R", "s_decodepub"}
          => sgn.privateKeyHash = keccak(sgn.private_key_bytes, privateKeySize)
    /\ (SignDone /\ prev.op = "Sign" /\ prev.privateKey = sgn.privateKey
            /\ prev.data = sgn.data /\ prev.stack = sgn.stack)
          => /\ prev.privateKeyHash = sgn.privateKeyHash
             /\ prev.r = sgn.r
             /\ prev.a = heap[3].mem
             /\ SubSeq(prev.signature, 1, 32) = SubSeq(signature, 1, 32)

C10_Witness ==
    /\ SignDone /\ prev.op = "Sign" /\ prev.privateKey = sgn.privateKey
    /\ prev.data = sgn.data /\ prev.stack = sgn.stack
    /\ prev.public_key # sgn.public_key
    /\ prev.signature # signature
====
